---- MODULE Spec2Model ----
(***************************************************************************)
(* Pitch_Generator_Agent: the step-wise driver of src/main.py.             *)
(*                                                                         *)
(* The FastAPI handlers are `async def` functions that never await an      *)
(* operation that yields to the event loop (every LLM call is the blocking *)
(* llm.invoke), so one request runs from its first line to its return or   *)
(* its exception before the next request starts: each handler is one       *)
(* action.  What a handler did on the way (the stages it invoked, in       *)
(* order, with the counters each stage saw) is kept in `trace`, the        *)
(* request in `req` and the answer in `resp`.                              *)
(*                                                                         *)
(* The text-generation calls are external: a call either raises or returns *)
(* a text.  A returned draft is modelled by a revision number (a Refine    *)
(* yields a new revision), a returned critique or package by the shape of  *)
(* the text, which is what the parsing code looks at.                      *)
(***************************************************************************)
EXTENDS Integers, Sequences, FiniteSets, TLC

(***************************************************************************)
(* Bounds of the model.                                                    *)
(***************************************************************************)
\* Number of sessions the Start requests of one run may create.
MaxSessions == 1
\* Longest run of consecutive Decide(approved=false) requests that is counted.
MaxStreak == 11
\* Number of sessions in the runs that exercise the store with several sessions.
MaxStoreSessions == 2

(***************************************************************************)
(* Program constants.                                                      *)
(***************************************************************************)
\* main.py:356  max_auto_refine_attempts = 3
max_auto_refine_attempts == 3
\* main.py:443  if session['iteration_count'] >= 10 and not decision.approved
MAX_TOTAL_ITERATIONS == 10

\* main.py:56-65  class SessionStatus
PITCH_GENERATED == "pitch_generated"
AWAITING_APPROVAL == "awaiting_approval"
REFINING == "refining"
APPROVED == "approved"
COMPLETED == "completed"
MAX_ITERATIONS_REACHED == "max_iterations_reached"

SessionStatus ==
  {"initialized", "context_gathered", PITCH_GENERATED, "pitch_critiqued",
   AWAITING_APPROVAL, REFINING, APPROVED, COMPLETED, MAX_ITERATIONS_REACHED}

(***************************************************************************)
(* Values.                                                                 *)
(***************************************************************************)
\* The session ids a run can see: uuid4 values, never reused.
SessionIds == 1..MaxSessions

\* The feedback a caller sends with a decision (ApprovalDecision.feedback).
Feedbacks == {"", "add metrics"}

\* The key 'final_pitch' is not in the session dict until approve_pitch sets it.
Absent == [type |-> "absent"]

\* main.py:342  'critique': {}
EmptyCritique ==
  [type |-> "object", decision |-> "None", overall_score |-> -1, feedback |-> "None"]

(***************************************************************************)
(* Generated texts, by the shape the parsing code tests: how the payload   *)
(* is wrapped and what the payload is.                                     *)
(*   wrap:  bare        the payload alone                                  *)
(*          fence       ``` payload ```                                    *)
(*          fence_json  ```json payload ```                                *)
(*          prose       a sentence, then the payload                       *)
(*   body:  object (a JSON object), array (valid JSON, not an object),     *)
(*          garbage (not JSON)                                             *)
(***************************************************************************)
Wraps == {"bare", "fence", "fence_json", "prose"}

CriticBodies ==
  { [body |-> "object", decision |-> "PASS", overall_score |-> 85],
    [body |-> "object", decision |-> "FAIL", overall_score |-> 50],
    [body |-> "object", decision |-> "None", overall_score |-> 50],
    [body |-> "array", decision |-> "None", overall_score |-> -1],
    [body |-> "garbage", decision |-> "None", overall_score |-> -1] }

CriticTexts == { [wrap |-> w, payload |-> b] : w \in Wraps, b \in CriticBodies }

\* main.py:184-189 and 290-295: strip, drop a leading fence and a "json" tag.
\* The result is the payload when the text starts with the payload or with a
\* fence; a text that starts with prose is left as it is and is not JSON.
CleanUp(text) ==
  IF text.wrap \in {"bare", "fence", "fence_json"}
  THEN text.payload
  ELSE [text.payload EXCEPT !.body = "garbage"]

\* main.py:196-203: the record returned when json.loads raises.
CritiqueFallback ==
  [type |-> "object", decision |-> "FAIL", overall_score |-> 60,
   feedback |-> "Could not parse critique properly"]

\* main.py:182-203: the parsing part of critique_pitch.
critique_pitch(text) ==
  LET content == CleanUp(text)
  IN  IF content.body = "garbage"
      THEN CritiqueFallback
      ELSE IF content.body = "array"
      THEN [type |-> "array", decision |-> "None", overall_score |-> -1,
            feedback |-> "None"]
      ELSE [type |-> "object", decision |-> content.decision,
            overall_score |-> content.overall_score, feedback |-> "llm"]

\* What critique_pitch can return when llm_critic.invoke returns.
CriticResults == { critique_pitch(t) : t \in CriticTexts }

PackageBodies == {"object", "array", "garbage"}
PackageTexts == { [wrap |-> w, payload |-> [body |-> b]] : w \in Wraps, b \in PackageBodies }

\* main.py:288-318: the parsing part of prepare_final_pitch.
prepare_final_pitch(text, pitch) ==
  LET content == CleanUp(text)
  IN  IF content.body = "garbage"
      THEN [type |-> "object", source |-> "fallback", raw_pitch |-> pitch]
      ELSE [type |-> content.body, source |-> "llm", raw_pitch |-> 0]

PackageResults(pitch) == { prepare_final_pitch(t, pitch) : t \in PackageTexts }

(***************************************************************************)
(* State.                                                                  *)
(***************************************************************************)
VARIABLES
  sessions,   \* main.py:71  the session store: id -> session dict
  nextId,     \* the next unused session id
  req,        \* the request the last handler served
  resp,       \* what it answered
  trace,      \* the stages it invoked, in order
  streak,     \* how many Decide(approved=false) in a row the session req.sid has had
  graph,      \* agent.py: the PitchState of a run_pitch_workflow call and its next node
  parser      \* a record, its serialized text and what the parsing code returns for it

vars == <<sessions, nextId, req, resp, trace, streak, graph, parser>>

\* No text is being parsed on its own.
ParserIdle == [phase |-> "idle"]

\* No run_pitch_workflow call is under way: the service of main.py never makes one.
GraphIdle == [node |-> "idle"]

NoRequest == [op |-> "none", sid |-> 0, approved |-> FALSE, feedback |-> ""]
NoResponse == [code |-> 0, status |-> "none", detail |-> "none"]

\* One invocation of a stage: the counters it saw, its argument and its result.
StageCall(stage, s, arg, res) ==
  [stage |-> stage, ic |-> s.iteration_count, cfc |-> s.critic_fail_count,
   arg |-> arg, res |-> res]

\* A handler's outcome: the session as it leaves it, the stages it ran, its answer.
Outcome(s, tr, r) == [s |-> s, trace |-> tr, resp |-> r]

\* Variant: an exception in a handler is swallowed and answered as a success.
InternalError_Swallowed == [code |-> 200, status |-> "none", detail |-> "Internal Server Error"]

\* An uncaught exception: FastAPI answers 500 and the handler's writes stay.
InternalError == [code |-> 500, status |-> "none", detail |-> "Internal Server Error"]

Ok(status, detail) == [code |-> 200, status |-> status, detail |-> detail]

Init ==
  /\ sessions = << >>
  /\ nextId = 1
  /\ req = NoRequest
  /\ resp = NoResponse
  /\ trace = << >>
  /\ streak = 0
  /\ graph = GraphIdle
  /\ parser = ParserIdle

(***************************************************************************)
(* _run_critique_refine_loop, main.py:353-421.  The set of outcomes of the *)
(* loop entered with session s after the stages in tr: one outcome for     *)
(* each way the external calls can answer.                                 *)
(***************************************************************************)
\* Variant: the status is not set when the loop returns.
SendToHuman_KeepStatus(s, tr, detail) ==
  Outcome(s, tr, [code |-> 200, status |-> AWAITING_APPROVAL, detail |-> detail])

\* main.py:366-399 (and 412-421): the session is handed to the human.
SendToHuman(s, tr, detail) ==
  LET s1 == [s EXCEPT !.status = AWAITING_APPROVAL]
  IN  Outcome(s1, tr, Ok(s1.status, detail))

\* Variant: storing the critique also replaces the pitch.
StoreCritique_TouchesPitch(s, critique) ==
  [s EXCEPT !.critique = critique, !.iteration_count = @ + 1, !.pitch = @ + 1]

\* main.py:363-364: the critique is stored and the pass is counted.
StoreCritique(s, critique) ==
  [s EXCEPT !.critique = critique, !.iteration_count = @ + 1]

\* Variant: the loop never takes the PASS exit.
CriticPassed_Never(critique) == FALSE

\* main.py:367: critique.get('decision') == 'PASS'
CriticPassed(critique) == critique.decision = "PASS"

\* Variant: a failed evaluation counts twice.
CountFail_ByTwo(s) == [s EXCEPT !.critic_fail_count = @ + 2]

\* main.py:382: session['critic_fail_count'] += 1
CountFail(s) == [s EXCEPT !.critic_fail_count = @ + 1]

\* Variant: the limit test is off by one.
AutoRefineExhausted_OffByOne(s) == s.critic_fail_count >= max_auto_refine_attempts - 1

\* Variant: the limit test inside the loop is missing.
AutoRefineExhausted_Never(s) == FALSE

\* main.py:386: if session['critic_fail_count'] >= max_auto_refine_attempts
AutoRefineExhausted(s) == s.critic_fail_count >= max_auto_refine_attempts

\* main.py:358: while session['critic_fail_count'] < max_auto_refine_attempts
LoopCondition(s) == s.critic_fail_count < max_auto_refine_attempts

\* main.py:409 and 483: session['pitch'] = refined_pitch
StoreRefined(s) == [s EXCEPT !.pitch = @ + 1]

RECURSIVE run_critique_refine_loop(_, _)
run_critique_refine_loop(s, tr) ==
  IF ~LoopCondition(s)
  THEN { SendToHuman(s, tr, "Max refinement attempts reached. Please review.") }
  ELSE
    \* main.py:361 -> 180: llm_critic.invoke raises
    { Outcome(s, Append(tr, StageCall("Evaluate", s, "", "raise")), InternalError) }
    \cup
    UNION {
      LET s1 == StoreCritique(s, critique)
          tr1 == Append(tr, StageCall("Evaluate", s, "",
                   IF critique.type = "object" THEN critique.decision
                   ELSE "AttributeError"))
      IN  IF critique.type # "object"
          \* main.py:367: a list has no .get, AttributeError
          THEN { Outcome(s1, tr1, InternalError) }
          ELSE IF CriticPassed(critique)
          THEN { SendToHuman(s1, tr1, "Pitch PASSED critic review") }
          ELSE
            LET s2 == CountFail(s1)
            IN  IF AutoRefineExhausted(s2)
                THEN { SendToHuman(s2, tr1, "Auto-refinement complete") }
                ELSE
                  LET s3 == [s2 EXCEPT !.status = REFINING]
                  IN  \* main.py:404 -> 228: llm_refiner.invoke raises
                      { Outcome(s3, Append(tr1, StageCall("Refine", s3, "auto", "raise")),
                                InternalError) }
                      \cup
                      run_critique_refine_loop(
                        StoreRefined(s3),
                        Append(tr1, StageCall("Refine", s3, "auto", "ok")))
      : critique \in CriticResults }

(***************************************************************************)
(* start_pitch_workflow, main.py:324-350.                                  *)
(***************************************************************************)
\* Variant: the new session is stored as already waiting at the gate.
NewSession_AtGate(mvp) ==
  [mvp_description |-> mvp, context |-> 1, pitch |-> 1, critique |-> EmptyCritique,
   iteration_count |-> 0, critic_fail_count |-> 0, status |-> AWAITING_APPROVAL,
   final_pitch |-> Absent]

\* main.py:338-347: the session as Start stores it.
NewSession(mvp) ==
  [mvp_description |-> mvp, context |-> 1, pitch |-> 1, critique |-> EmptyCritique,
   iteration_count |-> 0, critic_fail_count |-> 0, status |-> PITCH_GENERATED,
   final_pitch |-> Absent]

\* The counters a stage of Start sees before the session exists.
NoSession == [iteration_count |-> 0, critic_fail_count |-> 0]

\* Variant: every stored session shares the dict of the one just created.
Put_Shared(store, sid, s) == [i \in DOMAIN store \cup {sid} |-> s]

Put(store, sid, s) == [i \in DOMAIN store \cup {sid} |-> IF i = sid THEN s ELSE store[i]]

\* Variant: deleting one session clears the whole store.
Remove_All(store, sid) == << >>

Remove(store, sid) == [i \in DOMAIN store \ {sid} |-> store[i]]

\* Start while fewer than `limit` sessions have been created.
StartWithin(mvp, limit) ==
  /\ nextId <= limit
  /\ req' = [op |-> "start", sid |-> nextId, approved |-> FALSE, feedback |-> ""]
  /\ streak' = 0
  /\ UNCHANGED <<graph, parser>>
  /\ \/ \* main.py:331 -> 134: llm_context.invoke raises
        /\ trace' = << StageCall("Contextualize", NoSession, "", "raise") >>
        /\ resp' = InternalError
        /\ UNCHANGED <<sessions, nextId>>
     \/ \* main.py:335 -> 150: llm_generator.invoke raises
        /\ trace' = << StageCall("Contextualize", NoSession, "", "ok"),
                       StageCall("Draft", NoSession, "", "raise") >>
        /\ resp' = InternalError
        /\ UNCHANGED <<sessions, nextId>>
     \/ \E o \in run_critique_refine_loop(
                   NewSession(mvp),
                   << StageCall("Contextualize", NoSession, "", "ok"),
                      StageCall("Draft", NoSession, "", "ok") >>) :
          /\ sessions' = Put(sessions, nextId, o.s)
          /\ nextId' = nextId + 1
          /\ trace' = o.trace
          /\ resp' = o.resp

start_pitch_workflow(mvp) == StartWithin(mvp, MaxSessions)

(***************************************************************************)
(* approve_pitch, main.py:423-487.                                         *)
(***************************************************************************)
NotFound == [code |-> 404, status |-> "none", detail |-> "Session not found"]

\* Variant: a request in the wrong status is answered as a success.
Precondition_Accepted(status, detail) == [code |-> 200, status |-> status, detail |-> detail]

Precondition(status, detail) == [code |-> 400, status |-> status, detail |-> detail]

\* main.py:447: the message of the answer at the ceiling.
CeilingMessage ==
  "Maximum 10 total iterations reached. Please approve current pitch or start a new session."

\* Variant: the ceiling test is off by one.
CeilingReached_OffByOne(s, approved) ==
  s.iteration_count > MAX_TOTAL_ITERATIONS /\ ~approved

\* main.py:443: the ceiling on total iterations stops a rejection.
CeilingReached(s, approved) ==
  s.iteration_count >= MAX_TOTAL_ITERATIONS /\ ~approved

\* Variant: the reset clears the total as well.
ResetFailCount_BothCounters(s) ==
  [s EXCEPT !.critic_fail_count = 0, !.iteration_count = 0]

\* Variant: the reset is missing.
ResetFailCount_Missing(s) == s

\* main.py:484: session['critic_fail_count'] = 0
ResetFailCount(s) == [s EXCEPT !.critic_fail_count = 0]

\* Variant: the status test is missing.
AtGate_Any(s) == TRUE

\* Variant: a session left in REFINING is taken for one at the gate.
AtGate_OrRefining(s) == s.status \in {AWAITING_APPROVAL, REFINING}

\* main.py:436: the decision is taken only at the gate.
AtGate(s) == s.status = AWAITING_APPROVAL

\* Variant: the status is left at APPROVED.
Complete_KeepStatus(s, final_pitch) == [s EXCEPT !.final_pitch = final_pitch]

\* main.py:459-460: the package is stored and the session is completed.
Complete(s, final_pitch) ==
  [s EXCEPT !.final_pitch = final_pitch, !.status = COMPLETED]

\* The outcomes of approve_pitch on a stored session s.
approve_outcomes(s, approved, feedback) ==
  IF ~AtGate(s)
  THEN { Outcome(s, << >>, Precondition(s.status, "Cannot approve/reject")) }
  ELSE IF CeilingReached(s, approved)
  THEN { Outcome(s, << >>,
           Ok(MAX_ITERATIONS_REACHED, CeilingMessage)) }
  ELSE IF approved
  THEN
    LET s1 == [s EXCEPT !.status = APPROVED]
    IN  \* main.py:457 -> 286: llm_readiness.invoke raises
        { Outcome(s1, << StageCall("Package", s1, feedback, "raise") >>, InternalError) }
        \cup
        { Outcome(Complete(s1, final_pitch),
                  << StageCall("Package", s1, feedback, "ok") >>,
                  Ok(COMPLETED, "Pitch approved! Final package ready."))
          : final_pitch \in PackageResults(s1.pitch) }
  ELSE
    LET s1 == [s EXCEPT !.status = REFINING]
    IN  \* main.py:476 -> 228: llm_refiner.invoke raises
        { Outcome(s1, << StageCall("Refine", s1, feedback, "raise") >>, InternalError) }
        \cup
        run_critique_refine_loop(
          ResetFailCount(StoreRefined(s1)),
          << StageCall("Refine", s1, feedback, "ok") >>)

approve_pitch(sid, approved, feedback) ==
  /\ approved \/ req.op # "decide" \/ req.sid # sid \/ req.approved \/ streak < MaxStreak
  /\ req' = [op |-> "decide", sid |-> sid, approved |-> approved, feedback |-> feedback]
  /\ UNCHANGED <<nextId, graph, parser>>
  /\ IF sid \notin DOMAIN sessions
     THEN /\ resp' = NotFound
          /\ trace' = << >>
          /\ streak' = 0
          /\ UNCHANGED sessions
     ELSE \E o \in approve_outcomes(sessions[sid], approved, feedback) :
            /\ sessions' = [sessions EXCEPT ![sid] = o.s]
            /\ trace' = o.trace
            /\ resp' = o.resp
            /\ streak' = IF approved THEN 0
                         ELSE IF req.op = "decide" /\ req.sid = sid /\ ~req.approved
                              THEN streak + 1
                              ELSE 1

(***************************************************************************)
(* get_status, get_final_pitch, delete_session, main.py:489-540.           *)
(***************************************************************************)
get_status(sid) ==
  /\ req' = [op |-> "status", sid |-> sid, approved |-> FALSE, feedback |-> ""]
  /\ resp' = IF sid \notin DOMAIN sessions THEN NotFound
             ELSE Ok(sessions[sid].status, "status")
  /\ trace' = << >>
  /\ streak' = 0
  /\ UNCHANGED <<sessions, nextId, graph, parser>>

\* Variant: the package is served as soon as the pitch is approved.
FinalReady_Approved(s) == s.status \in {APPROVED, COMPLETED}

\* main.py:516: the final package is served only for a completed session.
FinalReady(s) == s.status = COMPLETED

\* main.py:522-531: the answer of get_final_pitch, which carries
\* session['final_pitch'].
FinalAnswer(s) ==
  [code |-> 200, status |-> s.status, detail |-> "final_pitch_package",
   final_pitch_package |-> s.final_pitch]

get_final_pitch(sid) ==
  /\ req' = [op |-> "final", sid |-> sid, approved |-> FALSE, feedback |-> ""]
  /\ resp' = IF sid \notin DOMAIN sessions THEN NotFound
             ELSE IF ~FinalReady(sessions[sid])
             THEN Precondition(sessions[sid].status, "Final pitch not ready")
             ELSE FinalAnswer(sessions[sid])
  /\ trace' = << >>
  /\ streak' = 0
  /\ UNCHANGED <<sessions, nextId, graph, parser>>

delete_session(sid) ==
  /\ req' = [op |-> "delete", sid |-> sid, approved |-> FALSE, feedback |-> ""]
  /\ IF sid \notin DOMAIN sessions
     THEN /\ resp' = NotFound
          /\ UNCHANGED sessions
     ELSE /\ resp' = Ok("none", "Session deleted successfully")
          /\ sessions' = Remove(sessions, sid)
  /\ trace' = << >>
  /\ streak' = 0
  /\ UNCHANGED <<nextId, graph, parser>>

Next ==
  \/ start_pitch_workflow("mvp")
  \/ \E sid \in SessionIds, approved \in BOOLEAN, feedback \in Feedbacks :
       approve_pitch(sid, approved, feedback)
  \/ \E sid \in SessionIds : get_status(sid)
  \/ \E sid \in SessionIds : get_final_pitch(sid)
  \/ \E sid \in SessionIds : delete_session(sid)

Spec == Init /\ [][Next]_vars

(***************************************************************************)
(* The same service with several sessions in the store, in runs where the  *)
(* generated texts are well formed: a call returns or raises, every        *)
(* critique returned is a well-formed PASS, every package a JSON object,   *)
(* and the caller sends no feedback.                                       *)
(***************************************************************************)
StoreIds == 1..MaxStoreSessions

WellBehaved ==
  /\ \A i \in DOMAIN trace :
       trace[i].res \in (IF trace[i].stage = "Evaluate" THEN {"PASS", "raise"}
                                                          ELSE {"ok", "raise"})
  /\ req.feedback = ""
  /\ \A sid \in DOMAIN sessions :
       sessions[sid].final_pitch \in {Absent, [type |-> "object", source |-> "llm", raw_pitch |-> 0]}

StoreStart == StartWithin("mvp", MaxStoreSessions) /\ WellBehaved'

StoreDecide ==
  \E sid \in StoreIds, approved \in BOOLEAN :
    approve_pitch(sid, approved, "") /\ WellBehaved'

StoreStatus == \E sid \in StoreIds : get_status(sid)

StoreFinal == \E sid \in StoreIds : get_final_pitch(sid)

StoreDelete == \E sid \in StoreIds : delete_session(sid)

NextStore ==
  \/ StoreStart
  \/ StoreDecide
  \/ StoreStatus
  \/ StoreFinal
  \/ StoreDelete

SpecStore == Init /\ [][NextStore]_vars

(***************************************************************************)
(* agent.py: run_pitch_workflow runs the compiled graph to its end in one  *)
(* call.  graph.node is the node that runs next, or how the run stopped:   *)
(* "END" (app.invoke returned the final state) or the exception that left  *)
(* app.invoke.                                                             *)
(***************************************************************************)
\* agent.py:513: app.invoke(initial_state) passes no config, so the run has
\* LangGraph's default recursion_limit: after this many node executions
\* without reaching END the library raises GraphRecursionError.
RecursionLimit == 25

\* agent.py:417: if state['critique_count'] >= 5
CritiqueLimit == 5

\* agent.py:352: auto_approve = overall_score >= 8.0 (scores are in tenths).
AutoApproveScore == 80

\* agent.py:355: what the human types at the prompt, stripped and upper-cased.
HumanInputs == {"A", "R", ""}

GraphNodes == {"context", "generator", "critic", "refiner", "human_review", "readiness"}

\* agent.py:495-505
\* Besides the PitchState fields the record keeps what the run did last:
\* the node that ran (last), what the human typed at the last prompt
\* (user_input), how many times the gate was entered (gates), the message
\* the refiner last sent to its model (message), and how many critiques
\* since the last gate were not PASS (fails), which is the count the
\* step-wise driver keeps in critic_fail_count.
initial_state ==
  [node |-> "context", context |-> 0, pitch |-> 0, critique |-> EmptyCritique,
   critique_count |-> 0, human_feedback |-> "", human_approved |-> FALSE,
   final_pitch |-> FALSE, steps |-> 0,
   last |-> "none", user_input |-> "none", gates |-> 0, message |-> [stage |-> "none"],
   fails |-> 0]

\* A node returned state g and the graph's edges lead to `node`.
Advance(g, node) == [g EXCEPT !.node = node, !.steps = @ + 1, !.last = g.node]

\* agent.py:303-319: the refiner's message is built from the pitch and the
\* critique's feedback and weaknesses; state['human_feedback'] is not read.
RefinerMessage(g) ==
  [stage |-> "Refine", pitch |-> g.pitch, feedback |-> g.critique.feedback]

\* A node raised: the exception leaves app.invoke and the run is over.
Raise(g, exception) == [g EXCEPT !.node = exception]

Running(node) == graph.node = node /\ graph.steps < RecursionLimit

Service == <<sessions, nextId, req, resp, trace, streak, parser>>

\* agent.py:274-280: the record used when json.loads raises.
AgentCritiqueFallback ==
  [type |-> "object", decision |-> "FAIL", overall_score |-> 50, feedback |-> "raw"]

\* agent.py:272-280: json.loads(response.content) with no clean-up, so only a
\* bare JSON text loads; a fenced or prose-wrapped payload is not JSON.
agent_parse(text) ==
  IF text.wrap # "bare" \/ text.payload.body = "garbage"
  THEN AgentCritiqueFallback
  ELSE IF text.payload.body = "array"
  THEN [type |-> "array", decision |-> "None", overall_score |-> -1, feedback |-> "None"]
  ELSE [type |-> "object", decision |-> text.payload.decision,
        overall_score |-> text.payload.overall_score, feedback |-> "llm"]

\* The critic's replies in a graph run: those of CriticTexts and, bare, the
\* scores around the auto-approval threshold with either decision.
AgentCriticTexts ==
  CriticTexts \cup
  { [wrap |-> "bare",
     payload |-> [body |-> "object", decision |-> d, overall_score |-> n]]
    : d \in {"PASS", "FAIL"}, n \in {AutoApproveScore - 1, AutoApproveScore} }

\* Variant: a score equal to the threshold does not auto-approve.
auto_approve_Strict(critique) == critique.overall_score > AutoApproveScore

\* agent.py:352: auto_approve = state['critique'].get('overall_score', 0) >= 8.0
auto_approve(critique) == critique.overall_score >= AutoApproveScore

\* Variant: the limit lets one more refinement through.
route_after_critic_OffByOne(g) ==
  IF g.critique_count > CritiqueLimit THEN "human_review"
  ELSE IF g.critique.decision = "PASS" THEN "human_review"
  ELSE "refiner"

\* agent.py:412-425
route_after_critic(g) ==
  IF g.critique_count >= CritiqueLimit THEN "human_review"
  ELSE IF g.critique.decision = "PASS" THEN "human_review"
  ELSE "refiner"

\* agent.py:428-433
route_after_human(g) == IF g.human_approved THEN "readiness" ELSE "refiner"

\* agent.py:158-199 (node "context", edge to "generator")
pitch_context_agent ==
  /\ Running("context")
  /\ \/ graph' = Raise(graph, "GenerationError")
     \/ graph' = Advance([graph EXCEPT !.context = 1], "generator")
  /\ UNCHANGED Service

\* agent.py:202-232 (node "generator", edge to "critic")
pitch_generator_agent ==
  /\ Running("generator")
  /\ \/ graph' = Raise(graph, "GenerationError")
     \/ graph' = Advance([graph EXCEPT !.pitch = 1], "critic")
  /\ UNCHANGED Service

\* agent.py:235-287 (node "critic", conditional edge route_after_critic)
pitch_critic_agent ==
  /\ Running("critic")
  /\ \/ graph' = Raise(graph, "GenerationError")
     \/ \E text \in AgentCriticTexts :
          LET critique == agent_parse(text)
              g1 == [graph EXCEPT !.critique = critique, !.critique_count = @ + 1,
                                  !.fails = IF critique.decision = "PASS" THEN @ ELSE @ + 1]
          IN  \* agent.py:286: critique['decision']
              IF critique.type # "object"
              THEN graph' = Raise(graph, "TypeError")
              ELSE IF critique.decision = "None"
              THEN graph' = Raise(graph, "KeyError")
              ELSE graph' = Advance(g1, route_after_critic(g1))
  /\ UNCHANGED Service

\* agent.py:290-328 (node "refiner", edge to "critic")
pitch_refiner_agent ==
  /\ Running("refiner")
  /\ \/ graph' = Raise(graph, "GenerationError")
     \/ graph' = Advance([graph EXCEPT !.pitch = @ + 1,
                                       !.message = RefinerMessage(graph)], "critic")
  /\ UNCHANGED Service

\* agent.py:341-369 (node "human_review", conditional edge route_after_human)
human_review_node ==
  /\ Running("human_review")
  /\ \E user_input \in HumanInputs, typed \in Feedbacks :
       LET approved == user_input = "A" \/ (user_input = "" /\ auto_approve(graph.critique))
           \* agent.py:357-362
           feedback == IF approved THEN "Approved for final preparation" ELSE typed
           g1 == [graph EXCEPT !.human_approved = approved,
                               !.human_feedback = feedback,
                               !.user_input = user_input,
                               !.fails = 0,
                               !.gates = @ + 1]
       IN  graph' = Advance(g1, route_after_human(g1))
  /\ UNCHANGED Service

\* agent.py:372-405 (node "readiness", edge to END)
pitch_readiness_agent ==
  /\ Running("readiness")
  /\ \/ graph' = Raise(graph, "GenerationError")
     \/ graph' = Advance([graph EXCEPT !.final_pitch = TRUE], "END")
  /\ UNCHANGED Service

\* The library stops a run that used up its recursion limit.
GraphRecursion ==
  /\ graph.node \in GraphNodes
  /\ graph.steps >= RecursionLimit
  /\ graph' = Raise(graph, "GraphRecursionError")
  /\ UNCHANGED Service

\* agent.py:491-513: one call of run_pitch_workflow.
InitGraph ==
  /\ sessions = << >>
  /\ nextId = 1
  /\ req = NoRequest
  /\ resp = NoResponse
  /\ trace = << >>
  /\ streak = 0
  /\ graph = initial_state
  /\ parser = ParserIdle

NextGraph ==
  \/ pitch_context_agent
  \/ pitch_generator_agent
  \/ pitch_critic_agent
  \/ pitch_refiner_agent
  \/ human_review_node
  \/ pitch_readiness_agent
  \/ GraphRecursion

SpecGraph == InitGraph /\ [][NextGraph]_vars

(***************************************************************************)
(* The parsing code of critique_pitch and prepare_final_pitch on its own,  *)
(* main.py:182-203 and 288-318, on texts made of pieces: a fence marker    *)
(* (three backquotes), a tag after the opening fence, a sentence of prose, *)
(* and pieces of JSON text.  The JSON text of a record whose string field  *)
(* quotes something between two fence markers consists of the piece before *)
(* the first marker, the marker, the quoted piece, the marker, and the     *)
(* rest.                                                                   *)
(***************************************************************************)
ParserRecords ==
  { [kind |-> "evaluation", decision |-> d, overall_score |-> n, body |-> b]
      : d \in {"PASS", "FAIL"}, n \in {50, 80, 85}, b \in {"plain", "quotes_fence"} }
  \cup
  { [kind |-> "package", decision |-> "none", overall_score |-> 0, body |-> b]
      : b \in {"plain", "quotes_fence"} }

ParserWraps == {"bare", "fence", "fence_json", "fence_JSON", "prose"}

Fence == [tok |-> "fence"]
Tag(t) == [tok |-> "tag", tag |-> t]
Prose == [tok |-> "prose"]
JsonText(x, part) == [tok |-> "json", of |-> x, part |-> part]

\* json.dumps(x) as pieces.
serialize(x) ==
  IF x.body = "plain"
  THEN << JsonText(x, 0) >>
  ELSE << JsonText(x, 1), Fence, JsonText(x, 2), Fence, JsonText(x, 3) >>

\* The generated text: the payload as the model wraps it.
Wrapped(wrap, payload) ==
  CASE wrap = "bare" -> payload
    [] wrap = "fence" -> << Fence >> \o payload \o << Fence >>
    [] wrap = "fence_json" -> << Fence, Tag("json") >> \o payload \o << Fence >>
    [] wrap = "fence_JSON" -> << Fence, Tag("JSON") >> \o payload \o << Fence >>
    [] wrap = "prose" -> << Prose >> \o payload

\* The length of the longest prefix of c without a fence marker.
RECURSIVE UpToFence(_)
UpToFence(c) ==
  IF c = << >> \/ c[1] = Fence THEN 0 ELSE 1 + UpToFence(Tail(c))

\* main.py:186: content.split(fence)[1], the text between the opening fence
\* and the next fence marker.
SplitSecond(c) == SubSeq(Tail(c), 1, UpToFence(Tail(c)))

\* main.py:185-189 (290-294): drop an opening fence and a "json" tag.
clean_up(content) ==
  IF content # << >> /\ content[1] = Fence
  THEN LET inner == SplitSecond(content)
       IN  IF inner # << >> /\ inner[1] = Tag("json") THEN Tail(inner) ELSE inner
  ELSE content

JsonError == [kind |-> "JSONDecodeError"]

\* json.loads: the record whose JSON text the content is, or an exception.
json_loads(content) ==
  IF \E x \in ParserRecords : serialize(x) = content
  THEN CHOOSE x \in ParserRecords : serialize(x) = content
  ELSE JsonError

\* main.py:196-203 and 299-318: the records returned when parsing raised.
ParseFallback(kind) ==
  IF kind = "evaluation"
  THEN [kind |-> "evaluation", decision |-> "FAIL", overall_score |-> 60, body |-> "fallback"]
  ELSE [kind |-> "package", decision |-> "none", overall_score |-> 0, body |-> "fallback"]

\* main.py:182-203 and 288-318: try json.loads(clean_up(text)), except fallback.
parse(text, kind) ==
  LET loaded == json_loads(clean_up(text))
  IN  IF loaded = JsonError THEN ParseFallback(kind) ELSE loaded

NotParsing == <<sessions, nextId, req, resp, trace, streak, graph>>

\* The model generates the text of a record, bare or wrapped.
Generate ==
  /\ parser.phase = "record"
  /\ \E wrap \in ParserWraps :
       parser' = [parser EXCEPT !.phase = "text", !.wrap = wrap,
                                !.text = Wrapped(wrap, serialize(parser.x))]
  /\ UNCHANGED NotParsing

\* critique_pitch parses the critic's reply.
ParseCritique ==
  /\ parser.phase = "text"
  /\ parser.x.kind = "evaluation"
  /\ parser' = [parser EXCEPT !.phase = "parsed", !.result = parse(parser.text, "evaluation")]
  /\ UNCHANGED NotParsing

\* prepare_final_pitch parses the readiness model's reply.
ParsePackage ==
  /\ parser.phase = "text"
  /\ parser.x.kind = "package"
  /\ parser' = [parser EXCEPT !.phase = "parsed", !.result = parse(parser.text, "package")]
  /\ UNCHANGED NotParsing

InitParser ==
  /\ sessions = << >>
  /\ nextId = 1
  /\ req = NoRequest
  /\ resp = NoResponse
  /\ trace = << >>
  /\ streak = 0
  /\ graph = GraphIdle
  /\ \E x \in ParserRecords :
       parser = [phase |-> "record", x |-> x, wrap |-> "none", text |-> << >>,
                 result |-> JsonError]

NextParser ==
  \/ Generate
  \/ ParseCritique
  \/ ParsePackage

SpecParser == InitParser /\ [][NextParser]_vars

(***************************************************************************)
(* Properties of the step-wise driver.                                     *)
(***************************************************************************)
\* The positions of the stage `stage` in the last request's trace.
Calls(stage) == { i \in DOMAIN trace : trace[i].stage = stage }

\* The automated Refine calls of the last request (main.py:404-408).
AutoRefines == { i \in Calls("Refine") : trace[i].arg = "auto" }

\* The Evaluate calls of the last request that returned a critique, which the
\* loop stored and counted (main.py:363-364).
Evaluated == { i \in Calls("Evaluate") : trace[i].res # "raise" }

\* The session the last request addressed, when it is stored.
Addressed == req.sid \in DOMAIN sessions

\* The last request was a Start or a Decide(approved=false) that ran its loop.
LoopRequest ==
  \/ req.op = "start"
  \/ req.op = "decide" /\ ~req.approved

\* C1: an Evaluate pass that leaves iteration_count at or above the ceiling
\* of 10 is the last stage of its request: no Refine or Evaluate follows it.
C1_HardStopAtCeiling ==
  \A i \in Evaluated :
    trace[i].ic + 1 >= MAX_TOTAL_ITERATIONS => i = Len(trace)

\* C2: a session that awaits approval has a latest critique with decision
\* PASS, or has failed the critic max_auto_refine_attempts times.
C2_GateNeedsPassOrLimit ==
  \A sid \in DOMAIN sessions :
    sessions[sid].status = AWAITING_APPROVAL
      => \/ sessions[sid].critique.decision = "PASS"
         \/ sessions[sid].critic_fail_count >= 3

C2_Witness ==
  \E sid \in DOMAIN sessions :
    /\ sessions[sid].status = AWAITING_APPROVAL
    /\ sessions[sid].critique.decision = "FAIL"
    /\ sessions[sid].critic_fail_count = 3
    /\ req.op = "decide"

\* C3: no automated Refine runs once critic_fail_count has reached 3; an
\* Evaluate that brings the count to 3 without a PASS is followed by the gate;
\* and one Start or Decide(reject) request runs at most 3 Evaluate stages and
\* at most 2 automated Refine stages.
C3_AutoLoopBounded ==
  /\ \A i \in AutoRefines : trace[i].cfc < 3
  /\ \A i \in Evaluated :
       (trace[i].cfc + 1 >= 3 /\ trace[i].res \in {"FAIL", "None"})
         => /\ i = Len(trace)
            /\ Addressed
            /\ sessions[req.sid].status = AWAITING_APPROVAL
  /\ LoopRequest => Cardinality(Calls("Evaluate")) <= 3 /\ Cardinality(AutoRefines) <= 2

C3_Witness ==
  /\ req.op = "decide" /\ ~req.approved
  /\ Cardinality(Calls("Evaluate")) = 3
  /\ Cardinality(AutoRefines) = 2
  /\ trace[Len(trace)].stage = "Evaluate" /\ trace[Len(trace)].res = "FAIL"
  /\ Addressed /\ sessions[req.sid].status = AWAITING_APPROVAL
  /\ sessions[req.sid].critic_fail_count = 3

\* C4: iteration_count of a stored session never decreases in any step.
C4_IterationCountMonotonic ==
  [][\A sid \in DOMAIN sessions \cap DOMAIN sessions' :
       sessions'[sid].iteration_count >= sessions[sid].iteration_count]_vars

C4_Witness ==
  /\ req.op = "decide" /\ ~req.approved /\ resp.code = 200
  /\ Addressed
  /\ sessions[req.sid].iteration_count >= 4
  /\ sessions[req.sid].critic_fail_count < 3

\* C5: in an accepted Decide(approved=false) the first Evaluate stage that
\* runs after the manual Refine sees critic_fail_count = 0.
C5_RejectResetsFailCount ==
  (req.op = "decide" /\ ~req.approved /\ trace # << >>)
    => /\ trace[1].stage = "Refine" /\ trace[1].arg = req.feedback
       /\ \A i \in Calls("Evaluate") :
            (\A j \in Calls("Evaluate") : i <= j) => trace[i].cfc = 0

C5_Witness ==
  /\ req.op = "decide" /\ ~req.approved
  /\ Len(trace) >= 2
  /\ trace[1].stage = "Refine" /\ trace[1].cfc = 3 /\ trace[1].res = "ok"
  /\ trace[2].stage = "Evaluate" /\ trace[2].cfc = 0

\* The value of final_pitch of session sid in a store (Absent when not stored).
FinalOf(store, sid) ==
  IF sid \in DOMAIN store THEN store[sid].final_pitch ELSE Absent

\* C6: final_pitch is written only by a Decide(approved=true) accepted at the
\* gate, only while it is still absent, and is never written again; no other
\* request runs Package.
C6_FinalPackageOnceAfterApproval ==
  [][/\ \A sid \in DOMAIN sessions' :
          FinalOf(sessions', sid) # FinalOf(sessions, sid)
            => /\ FinalOf(sessions, sid) = Absent
               /\ sid \in DOMAIN sessions
               /\ sessions[sid].status = AWAITING_APPROVAL
               /\ req' = [op |-> "decide", sid |-> sid, approved |-> TRUE,
                          feedback |-> req'.feedback]
               /\ resp'.code = 200
     /\ \A i \in DOMAIN trace' :
          trace'[i].stage = "Package"
            => /\ req'.op = "decide" /\ req'.approved
               /\ FinalOf(sessions, req'.sid) = Absent
               /\ sessions[req'.sid].status = AWAITING_APPROVAL
    ]_vars

C6_Witness ==
  /\ req.op = "decide" /\ req.approved /\ resp.code = 400
  /\ Addressed
  /\ sessions[req.sid].final_pitch # Absent
  /\ sessions[req.sid].status = COMPLETED

\* C7: a Decide(approved=true) that is answered normally leaves the session
\* completed with final_pitch set, after exactly one Package call and no other
\* stage.
C7_ApprovePackagesOnce ==
  (req.op = "decide" /\ req.approved /\ resp.code = 200)
    => /\ Addressed
       /\ sessions[req.sid].status = COMPLETED
       /\ sessions[req.sid].final_pitch # Absent
       /\ resp.status = COMPLETED
       /\ Len(trace) = 1
       /\ trace[1].stage = "Package" /\ trace[1].res = "ok"

C7_Witness ==
  /\ req.op = "decide" /\ req.approved /\ resp.code = 200
  /\ Addressed
  /\ sessions[req.sid].status = COMPLETED
  /\ sessions[req.sid].critique.decision = "FAIL"
  /\ Cardinality(Calls("Package")) = 1

\* No external call of the last request raised.
NoCallFailed == \A i \in DOMAIN trace : trace[i].res # "raise"

\* Every Evaluate of the last request returned decision FAIL.
EveryEvaluationFailed ==
  /\ Calls("Evaluate") # {}
  /\ \A i \in Calls("Evaluate") : trace[i].res = "FAIL"

\* C8: a Start in which no external call fails and every evaluation returns
\* FAIL ends with the session awaiting approval after at most 4 Evaluate
\* rounds.
C8_StartAllFailReachesGate ==
  (req.op = "start" /\ NoCallFailed /\ EveryEvaluationFailed)
    => /\ Addressed
       /\ sessions[req.sid].status = AWAITING_APPROVAL
       /\ resp.code = 200 /\ resp.status = AWAITING_APPROVAL
       /\ Cardinality(Calls("Evaluate")) <= max_auto_refine_attempts + 1

C8_Witness ==
  /\ req.op = "start" /\ NoCallFailed /\ EveryEvaluationFailed
  /\ Cardinality(Calls("Evaluate")) = 3
  /\ Addressed
  /\ sessions[req.sid].status = AWAITING_APPROVAL
  /\ sessions[req.sid].iteration_count = 3

C10_CeilingLeavesOnlyApproval ==
  [][\A sid \in DOMAIN sessions :
       (/\ sessions[sid].status = AWAITING_APPROVAL
        /\ sessions[sid].iteration_count >= MAX_TOTAL_ITERATIONS
        /\ req'.op = "decide" /\ req'.sid = sid)
         => IF req'.approved
            THEN sessions'[sid].status = COMPLETED
            ELSE sessions'[sid] = sessions[sid] /\ trace' = << >>
    ]_vars

\* C11: a Final query on a stored session is answered with the final package
\* exactly when the session is completed, and with a 400 precondition error
\* for every other status; it changes no session.
C11_FinalOnlyWhenCompleted ==
  [][(req'.op = "final" /\ req'.sid \in DOMAIN sessions)
       => /\ sessions' = sessions
          /\ trace' = << >>
          /\ IF sessions[req'.sid].status = COMPLETED
             THEN /\ resp'.code = 200
                  /\ resp'.final_pitch_package = sessions[req'.sid].final_pitch
                  /\ resp'.final_pitch_package # Absent
             ELSE /\ resp'.code = 400
                  /\ resp'.status = sessions[req'.sid].status
    ]_vars

C11_Witness ==
  /\ req.op = "final" /\ Addressed
  /\ sessions[req.sid].status = APPROVED
  /\ sessions[req.sid].final_pitch = Absent
  /\ resp.code = 400

\* C12: a Decide on a stored session that is not awaiting approval is
\* answered 400, runs no stage and leaves the store as it was.
C12_DecideOnlyAtGate ==
  [][(/\ req'.op = "decide"
      /\ req'.sid \in DOMAIN sessions
      /\ sessions[req'.sid].status # AWAITING_APPROVAL)
       => /\ resp'.code = 400
          /\ resp'.status = sessions[req'.sid].status
          /\ trace' = << >>
          /\ sessions' = sessions
    ]_vars

C12_Witness ==
  /\ req.op = "decide" /\ ~req.approved /\ Addressed
  /\ sessions[req.sid].status = REFINING
  /\ resp.code = 400
  /\ trace = << >>

\* The last external call of a request with trace tr raised.
CallFailed(tr) == tr # << >> /\ tr[Len(tr)].res = "raise"

\* C13: when an external call of a Start or Decide request raises, the
\* session holds what it held before the failing stage began: a request whose
\* first call fails leaves the store as it was, and after a later failing
\* call both counters are the ones that call saw.
C13_FailedCallCommitsNothing ==
  [][(req'.op \in {"start", "decide"} /\ CallFailed(trace'))
       => IF Len(trace') = 1
          THEN sessions' = sessions
          ELSE req'.sid \in DOMAIN sessions'
                 => /\ sessions'[req'.sid].iteration_count = trace'[Len(trace')].ic
                    /\ sessions'[req'.sid].critic_fail_count = trace'[Len(trace')].cfc
    ]_vars

\* C14: a Decide that failed in an external call can be issued again on the
\* same session and is then not refused with a precondition error.
C14_FailedDecideCanBeRetried ==
  [][(/\ req.op = "decide"
      /\ req.sid \in DOMAIN sessions
      /\ CallFailed(trace)
      /\ req' = req)
       => resp'.code # 400
    ]_vars

\* The ids the store has handed out and no longer holds: deleted sessions.
Deleted(store, next) == (1..(next - 1)) \ DOMAIN store

\* C15: Decide, Status, Final and Delete on an id that is not in the store
\* answer NotFound, run no stage and leave the store unchanged; Delete on a
\* stored id removes that session and no other, leaving every other session
\* as it was; an id that was deleted never comes back, so every later
\* operation on it, a second Delete included, is answered NotFound.
C15_StoreNotFoundAndDelete ==
  [][/\ (req'.op \in {"decide", "status", "final", "delete"}
          /\ req'.sid \notin DOMAIN sessions)
        => /\ resp' = NotFound
           /\ sessions' = sessions
           /\ trace' = << >>
     /\ (req'.op = "delete" /\ req'.sid \in DOMAIN sessions)
        => /\ resp'.code = 200
           /\ DOMAIN sessions' = DOMAIN sessions \ {req'.sid}
           /\ \A i \in DOMAIN sessions' : sessions'[i] = sessions[i]
     /\ Deleted(sessions, nextId) \subseteq Deleted(sessions', nextId')
    ]_vars

\* A second Delete of a deleted session is answered NotFound while another
\* session is still stored.
C15_Witness ==
  /\ req.op = "delete"
  /\ req.sid \in Deleted(sessions, nextId)
  /\ resp = NotFound
  /\ DOMAIN sessions # {}

\* C16: whatever text the critic generates, the Evaluate stage returns a
\* record of the evaluation shape whose decision is PASS or FAIL, so every
\* critique a session stores is the initial empty one or such a record.
C16_EvaluateReturnsValidRecord ==
  \A sid \in DOMAIN sessions :
    \/ sessions[sid].critique = EmptyCritique
    \/ /\ sessions[sid].critique.type = "object"
       /\ sessions[sid].critique.decision \in {"PASS", "FAIL"}

\* The Evaluate calls of the last request whose text was not a conformant
\* PASS payload: a well-formed FAIL, or a text that could not be parsed into
\* an evaluation record.
NotPassed == { i \in Calls("Evaluate") : trace[i].res \notin {"PASS", "raise"} }

\* What the loop does after a well-formed FAIL at call i (main.py:382-409):
\* both counters go up by one, then the automated Refine runs, or, when the
\* fail count has reached max_auto_refine_attempts, the session goes to the
\* gate and the request is answered.
FailTransition(i) ==
  IF i = Len(trace)
  THEN /\ Addressed
       /\ sessions[req.sid].iteration_count = trace[i].ic + 1
       /\ sessions[req.sid].critic_fail_count = trace[i].cfc + 1
       /\ sessions[req.sid].critic_fail_count >= max_auto_refine_attempts
       /\ sessions[req.sid].status = AWAITING_APPROVAL
       /\ resp.code = 200
  ELSE /\ trace[i + 1].stage = "Refine"
       /\ trace[i + 1].arg = "auto"
       /\ trace[i + 1].ic = trace[i].ic + 1
       /\ trace[i + 1].cfc = trace[i].cfc + 1
       /\ trace[i + 1].cfc < max_auto_refine_attempts

\* C17: a parse failure never halts the workflow. Every Evaluate whose
\* response is not a conformant PASS, unparsable ones included, is followed
\* by the transitions of a well-formed FAIL; and a Decide(approved=true)
\* whose Package call returned, parsable or not, ends in Completed with a
\* final package stored.
C17_ParseFailureRoutesAsFail ==
  /\ \A i \in NotPassed : FailTransition(i)
  /\ (req.op = "decide" /\ req.approved /\ trace # << >> /\ trace[1].res = "ok")
       => /\ Addressed
          /\ sessions[req.sid].status = COMPLETED
          /\ sessions[req.sid].final_pitch # Absent
          /\ resp.code = 200

\* C20: after every Start or Decide that is answered without error (200),
\* the stored status of the addressed session is awaiting_approval or
\* completed, never pitch_generated, refining or approved.
C20_SuccessLeavesGateOrCompleted ==
  (req.op \in {"start", "decide"} /\ resp.code = 200)
    => /\ Addressed
       /\ sessions[req.sid].status \in {AWAITING_APPROVAL, COMPLETED}

\* A Decide(approved=false) ran Refine and the loop, and was answered 200
\* with the session back at the gate.
C20_Witness ==
  /\ req.op = "decide" /\ ~req.approved
  /\ resp.code = 200
  /\ Addressed
  /\ trace # << >>
  /\ \E i \in AutoRefines : trace[i].res = "ok"
  /\ sessions[req.sid].status = AWAITING_APPROVAL

\* Stage call b may directly follow stage call a inside one request:
\* Contextualize, Draft, Evaluate, then Refine after an evaluation that did
\* not pass and Evaluate after every Refine; nothing follows a call that
\* raised, an evaluation that passed, or Package.
Follows(a, b) ==
  /\ a.res \notin {"raise", "AttributeError"}
  /\ \/ a.stage = "Contextualize" /\ b.stage = "Draft"
     \/ a.stage = "Draft" /\ b.stage = "Evaluate"
     \/ a.stage = "Evaluate" /\ a.res # "PASS" /\ b.stage = "Refine" /\ b.arg = "auto"
     \/ a.stage = "Refine" /\ b.stage = "Evaluate"

InOrder(tr) == \A i \in 1..(Len(tr) - 1) : Follows(tr[i], tr[i + 1])

GraphStopped == graph.node \notin GraphNodes \cup {"idle"}

\* A node of the graph raised (an external call failed, or the critic's
\* reply had no usable decision).
NodeRaised == graph.node \in {"GenerationError", "KeyError", "TypeError"}

\* C18: the run-to-completion driver never executes more than the hard
\* ceiling of Evaluate passes, and when no node raises it stops only by
\* returning, at END with the final package (Completed) or in a terminal
\* state for the reached ceiling, whatever the human answers at the gate.
C18_DriverStopsCompletedOrCeiling ==
  /\ graph.node # "idle" => graph.critique_count <= MAX_TOTAL_ITERATIONS
  /\ (GraphStopped /\ ~NodeRaised) => graph.node \in {"END", MAX_ITERATIONS_REACHED}
  /\ graph.node = "END" => graph.final_pitch

\* C21: in both drivers a rejection at the gate is followed by exactly one
\* Refine, before any further Evaluate, and the input of that Refine
\* includes the feedback the human gave at that gate.  Step-wise driver: an
\* accepted Decide(approved=false) starts with a Refine given req.feedback
\* and an Evaluate comes next.  Graph: a rejection at human_review leads to
\* the refiner, then the critic, and the refiner's message carries
\* human_feedback.
C21_RejectionRefinesWithFeedback ==
  [][/\ (req'.op = "decide" /\ ~req'.approved /\ trace' # << >>)
          => /\ trace'[1].stage = "Refine"
             /\ trace'[1].arg = req'.feedback
             /\ Len(trace') > 1 => trace'[2].stage = "Evaluate"
     /\ (graph.node = "human_review" /\ ~graph'.human_approved)
          => graph'.node = "refiner"
     /\ (graph.node = "refiner" /\ graph.last = "human_review" /\ graph'.node = "critic")
          => /\ "human_feedback" \in DOMAIN graph'.message
             /\ graph'.message.human_feedback = graph.human_feedback
    ]_vars

\* The session of the step-wise driver that has seen what the graph run has
\* seen: as many Evaluate passes, as many failed ones since the last gate.
AsSession(g) == [iteration_count |-> g.critique_count, critic_fail_count |-> g.fails]

\* C22: the two drivers implement one transition table.  On the same
\* history the graph takes the step the step-wise driver takes: after an
\* evaluation it goes to the gate exactly when the step-wise loop would
\* (decision PASS, or the third failed evaluation since the last gate), and
\* it accepts a rejection at the gate only where approve_pitch would (below
\* the ceiling of ten evaluations).
C22_DriversShareTable ==
  [][/\ (graph.node = "critic" /\ graph'.node \in {"human_review", "refiner"})
          => (graph'.node = "human_review"
                <=> \/ CriticPassed(graph'.critique)
                    \/ AutoRefineExhausted(AsSession(graph')))
     /\ (graph.node = "human_review" /\ graph'.node = "refiner")
          => ~CeilingReached(AsSession(graph), FALSE)
    ]_vars

\* The calls of a stage in trace tr that returned.
Returned(tr, stage) ==
  { i \in DOMAIN tr : tr[i].stage = stage /\ tr[i].res \notin {"raise"} }

\* C23: stages write only their own output fields.  For a session stored
\* before and after a request: mvp_description and context never change;
\* the pitch changes only by the Refine calls that returned, one version
\* each; critique and iteration_count change only by the Evaluate calls
\* that returned; final_pitch changes only when a Package call returned,
\* and that request changes nothing else but the status.  A new session
\* holds the input text, the context written once by Contextualize and the
\* draft, refined once per returned Refine.
C23_StagesWriteOwnFields ==
  [][\A sid \in DOMAIN sessions' :
       LET new == sessions'[sid]
       IN  IF sid \in DOMAIN sessions
           THEN LET old == sessions[sid]
                IN  /\ new.mvp_description = old.mvp_description
                    /\ new.context = old.context
                    /\ new # old => req'.sid = sid
                    /\ new.pitch = old.pitch
                         + (IF new # old THEN Cardinality(Returned(trace', "Refine")) ELSE 0)
                    /\ new.iteration_count = old.iteration_count
                         + (IF new # old THEN Cardinality(Returned(trace', "Evaluate")) ELSE 0)
                    /\ new.critique # old.critique => Returned(trace', "Evaluate") # {}
                    /\ new.final_pitch # old.final_pitch
                         => /\ Returned(trace', "Package") # {}
                            /\ [new EXCEPT !.status = old.status, !.final_pitch = old.final_pitch] = old
           ELSE /\ new.mvp_description = "mvp"
                /\ new.context = 1
                /\ new.pitch = 1 + Cardinality(Returned(trace', "Refine"))
                /\ new.iteration_count = Cardinality(Returned(trace', "Evaluate"))
                /\ new.final_pitch = Absent
    ]_vars

\* A Decide(approved=false) whose manual Refine, a failed Evaluate, an
\* automated Refine and a second Evaluate all returned.
C23_Witness ==
  /\ req.op = "decide" /\ ~req.approved
  /\ Addressed
  /\ Cardinality(Returned(trace, "Refine")) = 2
  /\ Cardinality(Returned(trace, "Evaluate")) = 2
  /\ sessions[req.sid].pitch >= 3
  /\ sessions[req.sid].context = 1

\* C24: sessions are isolated.  Whatever a request does (a Start creating a
\* new session, or a Decide, Status, Final or Delete addressed to one
\* session, failing or not), every other stored session stays in the store
\* with every field unchanged.
C24_SessionsIsolated ==
  [][\A other \in DOMAIN sessions :
       other # req'.sid
         => /\ other \in DOMAIN sessions'
            /\ sessions'[other] = sessions[other]
    ]_vars

\* A Decide on session 2 ran stages and changed it while session 1 is stored.
C24_Witness ==
  /\ req.op = "decide" /\ req.sid = 2
  /\ trace # << >>
  /\ DOMAIN sessions = {1, 2}
  /\ sessions[2].iteration_count > sessions[1].iteration_count

C26_ParserRoundTrips ==
  (parser.phase = "parsed" /\ parser.wrap \in {"bare", "fence", "fence_json"})
    => parser.result = parser.x

C28_CompletedAbsorbing ==
  [][\A sid \in DOMAIN sessions :
       sessions[sid].status = COMPLETED
         => /\ ~(req'.op = "delete" /\ req'.sid = sid)
                 => /\ sid \in DOMAIN sessions'
                    /\ sessions'[sid] = sessions[sid]
            /\ (req'.op = "decide" /\ req'.sid = sid)
                 => /\ resp'.code = 400
                    /\ resp'.status = COMPLETED
                    /\ trace' = << >>
    ]_vars

\* A Decide(approved=true) on a completed session was refused.
C28_Witness ==
  /\ req.op = "decide" /\ req.approved
  /\ Addressed
  /\ sessions[req.sid].status = COMPLETED
  /\ resp.code = 400
  /\ trace = << >>

\* C29: Start stores the new session only after Contextualize and Draft
\* have both returned: when either raises the store is unchanged.  When
\* the first Evaluate call raises, the new session stays in the store with
\* status pitch_generated, iteration_count 0 and the empty critique, while
\* the caller gets the error answer, which carries no session id.
C29_StartStoresAfterDraft ==
  [][req'.op = "start"
       => /\ trace' # << >>
          /\ IF Len(trace') <= 2 /\ CallFailed(trace')
             THEN sessions' = sessions
             ELSE /\ Len(trace') >= 3
                  /\ trace'[1].res = "ok" /\ trace'[2].res = "ok"
                  /\ req'.sid \notin DOMAIN sessions
                  /\ DOMAIN sessions' = DOMAIN sessions \cup {req'.sid}
          /\ (Len(trace') = 3 /\ CallFailed(trace'))
               => /\ sessions'[req'.sid].status = PITCH_GENERATED
                  /\ sessions'[req'.sid].iteration_count = 0
                  /\ sessions'[req'.sid].critic_fail_count = 0
                  /\ sessions'[req'.sid].critique = EmptyCritique
                  /\ resp' = InternalError
    ]_vars

\* A Start whose first Evaluate call raised left its session stored.
C29_Witness ==
  /\ req.op = "start"
  /\ Len(trace) = 3
  /\ trace[3].stage = "Evaluate" /\ trace[3].res = "raise"
  /\ Addressed
  /\ sessions[req.sid].status = PITCH_GENERATED
  /\ resp.code = 500

\* A critic pass of the graph ran to its end and was routed.
CriticPass == graph.node = "critic" /\ graph'.node \in {"human_review", "refiner"}

\* C30: in the graph critique_count goes up by exactly one per critic pass
\* and never changes otherwise; after a critic pass the refiner runs exactly
\* when the decision is not PASS and critique_count is below 5; so at most
\* 5 Evaluate and 4 Refine stages precede the first gate; and once
\* critique_count is 5 or more a rejection at the gate is followed by one
\* Refine and one Evaluate, after which the gate is entered again whatever
\* the decision.
C30_GraphCritiqueCount ==
  [][/\ graph.node \in GraphNodes
          => graph'.critique_count
               = graph.critique_count + (IF CriticPass THEN 1 ELSE 0)
     /\ CriticPass
          => (graph'.node = "refiner"
                <=> (graph'.critique.decision # "PASS" /\ graph'.critique_count < 5))
     /\ (graph'.node = "human_review" /\ graph'.gates = 0)
          => /\ graph'.critique_count <= 5
             /\ graph'.pitch - 1 <= 4
     /\ (graph.node = "human_review" /\ graph.critique_count >= 5
           /\ graph'.node \in GraphNodes /\ ~graph'.human_approved)
          => graph'.node = "refiner"
     /\ (graph.node = "refiner" /\ graph'.node \in GraphNodes)
          => graph'.node = "critic" /\ graph'.pitch = graph.pitch + 1
     /\ (CriticPass /\ graph.critique_count >= 5)
          => graph'.node = "human_review" /\ graph.last = "refiner"
    ]_vars

\* After a rejection at a gate entered with five critiques, one Refine and
\* one failed Evaluate brought the run back to the gate.
C30_Witness ==
  /\ graph.node = "human_review"
  /\ graph.last = "critic"
  /\ graph.gates = 1
  /\ graph.critique_count = 6
  /\ graph.pitch = 6
  /\ graph.critique.decision = "FAIL"
====
